---- MODULE Spec2Model ----
(***************************************************************************)
(* Gov Hospital Info API (src/main.py, src/schemas.py).                    *)
(*                                                                         *)
(* The routes of main.py over a document store.  A request is served in    *)
(* one step: the framework binds and validates the body against the        *)
(* route's pydantic model, then the handler body runs (the handlers hold   *)
(* no await, so a body runs to its end once entered) and issues at most    *)
(* one store call.                                                         *)
(*                                                                         *)
(* Values.  A JSON / Python value is a record tagged by its kind k:        *)
(*   none (null / None), str (s: a sequence of characters), num (n: a      *)
(*   float, kept on the whole numbers), list (l: a sequence of strings),   *)
(*   bool (b), oid (n: the store's native ObjectId).                       *)
(* A request body is a function from the keys it holds to values; a key    *)
(* it does not hold is absent.                                             *)
(***************************************************************************)
EXTENDS Integers, Sequences, FiniteSets, TLC

VARIABLES
    store,       \* collection name -> sequence of stored documents
    nextOid,     \* the store's id generator
    db,          \* the store handle: "none" (db is None), "up", "down"
    dbError,     \* the message of the exception the store raises when not "up"
    collections, \* what db.list_collection_names() reports
    env,         \* the environment names that are set (DATABASE_URL, DATABASE_NAME)
    inflight,    \* requests received and not yet served
    resp,        \* the last response sent
    log          \* history: the successful creates, in order

vars == <<store, nextOid, db, dbError, collections, env, inflight, resp, log>>

----------------------------------------------------------------------------
(* Bounds of the model *)

MaxDocs == 2
MaxGeoDocs == 1
MaxInflight == 2
MaxColls == 11

----------------------------------------------------------------------------
(* Values *)

Val(k, s, n, l, b) == [k |-> k, s |-> s, n |-> n, l |-> l, b |-> b]

VNone == Val("none", <<>>, 0, <<>>, FALSE)
VStr(s) == Val("str", s, 0, <<>>, FALSE)
VNum(n) == Val("num", <<>>, n, <<>>, FALSE)
VList(l) == Val("list", <<>>, 0, l, FALSE)
VBool(b) == Val("bool", <<>>, 0, <<>>, b)
VOid(n) == Val("oid", <<>>, n, <<>>, FALSE)

Min(a, b) == IF a < b THEN a ELSE b

\* s[:n]
Truncate(s, n) == SubSeq(s, 1, Min(Len(s), n))

\* a string of n characters c
Rep(c, n) == [i \in 1..n |-> c]

\* Python truthiness of an Optional[str]: None and "" are falsy
Truthy(x) == x.k = "str" /\ Len(x.s) > 0

HexDigits == <<"0","1","2","3","4","5","6","7","8","9","a","b","c","d","e","f">>

\* str(ObjectId): the hexadecimal text of the id (two digits here, 24 in the store)
StrOid(x) == VStr(<<HexDigits[((x.n \div 16) % 16) + 1], HexDigits[(x.n % 16) + 1]>>)

\* str(d.get("_id"))
StrId(x) == IF x.k = "oid" THEN StrOid(x)
            ELSE IF x.k = "none" THEN VStr(<<"N","o","n","e">>)
            ELSE x

----------------------------------------------------------------------------
(* Validation models: a model is a function from field names to field     *)
(* declarations.                                                          *)

NoBound == <<>>

Fld(t, required, nullable, default, ge, le) ==
    [t |-> t, required |-> required, nullable |-> nullable, default |-> default,
     ge |-> ge, le |-> le]

ReqStr == Fld("str", TRUE, FALSE, VNone, NoBound, NoBound)
OptStr == Fld("str", FALSE, TRUE, VNone, NoBound, NoBound)
OptFloat == Fld("num", FALSE, TRUE, VNone, NoBound, NoBound)
OptList == Fld("list", FALSE, TRUE, VList(<<>>), NoBound, NoBound)
BoolTrue == Fld("bool", FALSE, FALSE, VBool(TRUE), NoBound, NoBound)

\* main.py: the models the routes bind their bodies to
CreateHospital ==
    [name |-> ReqStr, level |-> OptStr, state |-> OptStr, district |-> OptStr,
     address |-> OptStr, latitude |-> OptFloat, longitude |-> OptFloat,
     phone |-> OptStr, email |-> OptStr, emergency_contact |-> OptStr,
     facilities |-> OptList, departments |-> OptList]

CreateDoctor ==
    [name |-> ReqStr, specialization |-> OptStr, qualifications |-> OptList,
     opd_days |-> OptList, opd_timings |-> OptStr, photo_url |-> OptStr,
     hospital_id |-> OptStr, department |-> OptStr]

CreateProcedure ==
    [code |-> OptStr, name |-> ReqStr, slug |-> OptStr, steps |-> OptList,
     pre_op_instructions |-> OptList, recovery_tips |-> OptList,
     estimated_cost_min |-> OptFloat, estimated_cost_max |-> OptFloat]

CreateDocumentReq ==
    [procedure_slug |-> OptStr, title |-> ReqStr, description |-> OptStr,
     mandatory |-> BoolTrue]

\* schemas.py: the documented collection schemas, with the numeric bounds
Hospital ==
    [CreateHospital EXCEPT
        !.latitude = Fld("num", FALSE, TRUE, VNone, <<-90>>, <<90>>),
        !.longitude = Fld("num", FALSE, TRUE, VNone, <<-180>>, <<180>>)]

Procedure ==
    [CreateProcedure EXCEPT
        !.estimated_cost_min = Fld("num", FALSE, TRUE, VNone, <<0>>, NoBound),
        !.estimated_cost_max = Fld("num", FALSE, TRUE, VNone, <<0>>, NoBound)]

TypeError(t) ==
    CASE t = "str" -> "string_type"
      [] t = "num" -> "float_type"
      [] t = "list" -> "list_type"
      [] t = "bool" -> "bool_type"

\* pydantic's verdict on one field of a body: the set of error types.  No
\* string of the model is a numeral, so a string never parses as a float.
FieldErrors(decl, present, x) ==
    IF ~present THEN (IF decl.required THEN {"missing"} ELSE {})
    ELSE IF x.k = "none" THEN (IF decl.nullable THEN {} ELSE {TypeError(decl.t)})
    ELSE IF decl.t = "num" /\ x.k = "str" THEN {"float_parsing"}
    ELSE IF x.k # decl.t THEN {TypeError(decl.t)}
    ELSE IF decl.t = "num" /\ decl.ge # NoBound /\ x.n < decl.ge[1]
         THEN {"greater_than_equal"}
    ELSE IF decl.t = "num" /\ decl.le # NoBound /\ x.n > decl.le[1]
         THEN {"less_than_equal"}
    ELSE {}

\* the validation errors of a body against a model, each naming its field;
\* keys the model does not declare are ignored
Errors(model, raw) ==
    UNION { { [loc |-> f, type |-> e] :
                e \in FieldErrors(model[f], f \in DOMAIN raw,
                                  IF f \in DOMAIN raw THEN raw[f] ELSE VNone) } :
            f \in DOMAIN model }

\* the model instance built from a valid body: defaults for the absent fields
Parse(model, raw) ==
    [f \in DOMAIN model |-> IF f \in DOMAIN raw THEN raw[f] ELSE model[f].default]

\* payload.model_dump(): the instance's fields as a dict
model_dump(payload) == [f \in DOMAIN payload |-> payload[f]]

----------------------------------------------------------------------------
(* The collection store behind database.create_document and               *)
(* database.get_documents: the store interface of the specification.      *)

CollectionNames == {"hospital", "doctor", "procedure", "documentrequirement"}

EmptyStore == [c \in CollectionNames |-> <<>>]

UpperCase == <<"A","B","C","D","E","F","G","H","I","J","K","L","M",
               "N","O","P","Q","R","S","T","U","V","W","X","Y","Z">>
LowerCase == <<"a","b","c","d","e","f","g","h","i","j","k","l","m",
               "n","o","p","q","r","s","t","u","v","w","x","y","z">>

Lower(c) == IF \E i \in DOMAIN UpperCase : UpperCase[i] = c
            THEN LowerCase[CHOOSE i \in DOMAIN UpperCase : UpperCase[i] = c]
            ELSE c

\* the pattern p matches s at position i; "." matches any character, every
\* other character of the model's alphabet matches itself
RegexMatchAt(p, s, i, ci) ==
    /\ i + Len(p) - 1 <= Len(s)
    /\ \A j \in 1..Len(p) :
          \/ p[j] = "."
          \/ IF ci THEN Lower(p[j]) = Lower(s[i + j - 1]) ELSE p[j] = s[i + j - 1]

\* {"$regex": p, "$options": o}: an unanchored search
RegexSearch(p, s, o) == \E i \in 1..(Len(s) + 1) : RegexMatchAt(p, s, i, o = "i")

VRegex(p, o) == [k |-> "regex", pattern |-> p, options |-> o]
VOr(clauses) == [k |-> "or", clauses |-> clauses]

\* a filter dict is a set of <<key, condition>> pairs
RECURSIVE Matches(_, _)
MatchCond(d, key, cond) ==
    IF key = "$or" THEN \E i \in DOMAIN cond.clauses : Matches(d, cond.clauses[i])
    ELSE IF cond.k = "regex"
         THEN /\ key \in DOMAIN d
              /\ d[key].k = "str"
              /\ RegexSearch(cond.pattern, d[key].s, cond.options)
    ELSE IF key \notin DOMAIN d THEN cond.k = "none"
    ELSE IF d[key].k = "list" /\ cond.k = "str"
         THEN \E i \in DOMAIN d[key].l : d[key].l[i] = cond.s
    ELSE d[key] = cond

Matches(d, filter) == \A c \in filter : MatchCond(d, c[1], c[2])

\* the document as stored: the record with the generated _id
WithId(data, oid) ==
    [f \in DOMAIN data \cup {"_id"} |-> IF f = "_id" THEN oid ELSE data[f]]

\* create(collectionName, record) -> identifier
create_document(coll, data) ==
    IF db # "up"
    THEN [raised |-> TRUE, msg |-> dbError, id |-> VNone,
          store |-> store, nextOid |-> nextOid]
    ELSE [raised |-> FALSE, msg |-> <<>>, id |-> StrOid(VOid(nextOid)),
          store |-> [store EXCEPT ![coll] = Append(@, WithId(data, VOid(nextOid)))],
          nextOid |-> nextOid + 1]

\* query(collectionName, filter) -> sequence of records
get_documents(coll, filter) ==
    IF db # "up"
    THEN [raised |-> TRUE, msg |-> dbError, docs |-> <<>>]
    ELSE [raised |-> FALSE, msg |-> <<>>,
          docs |-> SelectSeq(store[coll], LAMBDA d : Matches(d, filter))]

----------------------------------------------------------------------------
(* The route handlers of main.py.  A handler is evaluated in the current  *)
(* state and yields its response and the store it leaves.                 *)

Outcome(status, body, called, st, oid) ==
    [status |-> status, body |-> body, called |-> called, store |-> st, nextOid |-> oid]

\* raise HTTPException(status_code=500, detail=str(e)), as the framework renders it
HTTPException(status, detail, called) ==
    Outcome(status, [detail |-> detail], called, store, nextOid)

VErrors(errs) == [k |-> "errors", errors |-> errs]

\* mutant: a validation failure is rendered like a handler failure
RequestValidationError_as_500(errs) ==
    Outcome(500, [detail |-> VStr(<<"i","n","v","a","l","i","d">>)], FALSE, store, nextOid)

\* the framework's answer to a body that does not bind to the route's model:
\* the handler is not entered
RequestValidationError(errs) ==
    Outcome(422, [detail |-> VErrors(errs)], FALSE, store, nextOid)

\* mutant: the ids are returned in the store's native form
StringifyIds_native(docs) == docs

\* for d in docs: d["_id"] = str(d.get("_id"))
StringifyIds(docs) ==
    [i \in DOMAIN docs |->
        [f \in DOMAIN docs[i] \cup {"_id"} |->
            IF f = "_id"
            THEN StrId(IF "_id" \in DOMAIN docs[i] THEN docs[i]["_id"] ELSE VNone)
            ELSE docs[i][f]]]

\* mutant: a store failure is swallowed and an empty list returned
ListResponse_swallow(coll, filter_dict) ==
    LET r == get_documents(coll, filter_dict) IN
    Outcome(200, [items |-> StringifyIds(r.docs)], TRUE, store, nextOid)

\* the try/except around get_documents shared by the list handlers
ListResponse(coll, filter_dict) ==
    LET r == get_documents(coll, filter_dict) IN
    IF r.raised THEN HTTPException(500, VStr(r.msg), TRUE)
    ELSE Outcome(200, [items |-> StringifyIds(r.docs)], TRUE, store, nextOid)

\* the try/except around create_document shared by the create handlers
CreateResponse(coll, data) ==
    LET r == create_document(coll, data) IN
    IF r.raised THEN HTTPException(500, VStr(r.msg), TRUE)
    ELSE Outcome(200, [_id |-> r.id], TRUE, r.store, r.nextOid)

\* mutant: the district parameter is dropped from the filter
hospitals_filter_state_only(state, district) ==
    IF Truthy(state) THEN {<<"state", state>>} ELSE {}

hospitals_filter(state, district) ==
    (IF Truthy(state) THEN {<<"state", state>>} ELSE {})
    \cup (IF Truthy(district) THEN {<<"district", district>>} ELSE {})

list_hospitals(state, district) ==
    ListResponse("hospital", hospitals_filter(state, district))

create_hospital(payload) == CreateResponse("hospital", model_dump(payload))

doctors_filter(hospital_id, department) ==
    (IF Truthy(hospital_id) THEN {<<"hospital_id", hospital_id>>} ELSE {})
    \cup (IF Truthy(department) THEN {<<"department", department>>} ELSE {})

list_doctors(hospital_id, department) ==
    ListResponse("doctor", doctors_filter(hospital_id, department))

\* mutant: the doctor is stored in the hospital collection
create_doctor_in_hospitals(payload) == CreateResponse("hospital", model_dump(payload))

create_doctor(payload) == CreateResponse("doctor", model_dump(payload))

procedures_filter(q) ==
    IF Truthy(q)
    THEN {<<"$or", VOr(<< {<<"name", VRegex(q.s, "i")>>},
                          {<<"slug", VRegex(q.s, "i")>>} >>)>>}
    ELSE {}

list_procedures(q) == ListResponse("procedure", procedures_filter(q))

create_procedure(payload) == CreateResponse("procedure", model_dump(payload))

list_procedure_documents(slug) ==
    ListResponse("documentrequirement", {<<"procedure_slug", slug>>})

\* mutant: the body's procedure_slug is stored as sent
document_data_as_sent(slug, payload) == model_dump(payload)

\* data = payload.model_dump(); data["procedure_slug"] = slug
document_data(slug, payload) ==
    [f \in DOMAIN model_dump(payload) \cup {"procedure_slug"} |->
        IF f = "procedure_slug" THEN slug ELSE model_dump(payload)[f]]

create_procedure_document(slug, payload) ==
    CreateResponse("documentrequirement", document_data(slug, payload))

Limit == 10
MsgLimit == 50

\* mutant: every collection name is reported
collection_names_all(colls) == colls

\* collections[:10]
collection_names(colls) == Truncate(colls, Limit)

\* GET /test: the response dict as returned.  database_url and database_name
\* are overwritten from the environment before the return; nothing in the
\* outer try raises past the inner one, so its except branch yields no answer
\* of its own.
test_database ==
    LET url == IF "DATABASE_URL" \in env THEN "Set" ELSE "Not Set"
        name == IF "DATABASE_NAME" \in env THEN "Set" ELSE "Not Set"
        R(database, status, colls) ==
            Outcome(200,
                    [backend |-> "Running", database |-> database,
                     database_url |-> url, database_name |-> name,
                     connection_status |-> status, collections |-> colls],
                    db # "none", store, nextOid)
    IN  IF db = "none"
        THEN R(<<"Available but not initialized", <<>>>>, "Not Connected", <<>>)
        ELSE IF db = "down"
        THEN R(<<"Connected but Error: ", Truncate(dbError, MsgLimit)>>, "Connected", <<>>)
        ELSE R(<<"Connected & Working", <<>>>>, "Connected",
               collection_names(collections))

CreateRoutes ==
    {"create_hospital", "create_doctor", "create_procedure", "create_procedure_document"}
ListRoutes ==
    {"list_hospitals", "list_doctors", "list_procedures", "list_procedure_documents"}

\* the model a create route binds its body to
BodyModel(route) ==
    CASE route = "create_hospital" -> CreateHospital
      [] route = "create_doctor" -> CreateDoctor
      [] route = "create_procedure" -> CreateProcedure
      [] route = "create_procedure_document" -> CreateDocumentReq

\* the collection a route works on
RouteCollection(route) ==
    CASE route \in {"create_hospital", "list_hospitals"} -> "hospital"
      [] route \in {"create_doctor", "list_doctors"} -> "doctor"
      [] route \in {"create_procedure", "list_procedures"} -> "procedure"
      [] OTHER -> "documentrequirement"

\* the framework's routing: bind the parameters, validate the body, enter the handler
Dispatch(req) ==
    IF req.route \in CreateRoutes /\ Errors(BodyModel(req.route), req.body) # {}
    THEN RequestValidationError(Errors(BodyModel(req.route), req.body))
    ELSE CASE req.route = "list_hospitals" ->
                list_hospitals(req.params.state, req.params.district)
           [] req.route = "create_hospital" ->
                create_hospital(Parse(CreateHospital, req.body))
           [] req.route = "list_doctors" ->
                list_doctors(req.params.hospital_id, req.params.department)
           [] req.route = "create_doctor" ->
                create_doctor(Parse(CreateDoctor, req.body))
           [] req.route = "list_procedures" ->
                list_procedures(req.params.q)
           [] req.route = "create_procedure" ->
                create_procedure(Parse(CreateProcedure, req.body))
           [] req.route = "list_procedure_documents" ->
                list_procedure_documents(req.slug)
           [] req.route = "create_procedure_document" ->
                create_procedure_document(req.slug, Parse(CreateDocumentReq, req.body))
           [] req.route = "test_database" -> test_database

----------------------------------------------------------------------------
(* Requests *)

Req(route, slug, params, body) ==
    [route |-> route, slug |-> slug, params |-> params, body |-> body]

NoParams == <<>>
NoBody == <<>>

GetHospitals(state, district) ==
    Req("list_hospitals", VNone, [state |-> state, district |-> district], NoBody)
PostHospital(body) == Req("create_hospital", VNone, NoParams, body)
GetDoctors(hospital_id, department) ==
    Req("list_doctors", VNone,
        [hospital_id |-> hospital_id, department |-> department], NoBody)
PostDoctor(body) == Req("create_doctor", VNone, NoParams, body)
GetProcedures(q) == Req("list_procedures", VNone, [q |-> q], NoBody)
PostProcedure(body) == Req("create_procedure", VNone, NoParams, body)
GetDocuments(slug) == Req("list_procedure_documents", slug, NoParams, NoBody)
PostDocument(slug, body) == Req("create_procedure_document", slug, NoParams, body)
GetTest == Req("test_database", VNone, NoParams, NoBody)

NoResponse ==
    [req |-> Req("none", VNone, NoParams, NoBody), status |-> 0, body |-> <<>>,
     called |-> FALSE, unreachable |-> FALSE]

\* serve one request: the response, the store it leaves, the history
Serve(req) ==
    LET out == Dispatch(req) IN
    /\ store' = out.store
    /\ nextOid' = out.nextOid
    /\ resp' = [req |-> req, status |-> out.status, body |-> out.body,
                called |-> out.called, unreachable |-> db # "up"]
    /\ log' = IF req.route \in CreateRoutes /\ out.status = 200
              THEN Append(log, [req |-> req, id |-> out.body._id])
              ELSE log

DocCount == Len(store["hospital"]) + Len(store["doctor"])
            + Len(store["procedure"]) + Len(store["documentrequirement"])

\* no request is in flight
Idle == \A i \in DOMAIN inflight : inflight[i] = 0

\* a request served as it arrives
Request(req) ==
    /\ Idle
    /\ Serve(req)
    /\ UNCHANGED <<db, dbError, collections, env, inflight>>

----------------------------------------------------------------------------
(* Inputs *)

Absent == Val("absent", <<>>, 0, <<>>, FALSE)

\* the body holding the keys of r whose value is not Absent
Body(r) == [f \in {g \in DOMAIN r : r[g].k # "absent"} |-> r[f]]

sA == <<"A">>
sKA == <<"K","A">>
sKAR == <<"K","A","R">>
sK == <<"K">>
sD1 == <<"D","1">>
sH1 == <<"H","1">>
sH12 == <<"H","1","2">>
sENT == <<"E","N","T">>
sICU == <<"I","C","U">>

AllEnv == {"DATABASE_URL", "DATABASE_NAME"}

FirstOid == 15

InitUp ==
    /\ store = EmptyStore
    /\ nextOid = FirstOid
    /\ db = "up"
    /\ dbError = <<>>
    /\ collections = <<>>
    /\ env = AllEnv
    /\ inflight = <<>>
    /\ resp = NoResponse
    /\ log = <<>>

----------------------------------------------------------------------------
(* The directory: hospitals and doctors, created and listed *)

DirectoryHospitals ==
    { Body([name |-> VStr(sA), state |-> VStr(sKA)]),
      Body([name |-> VStr(sA), state |-> VStr(<<>>), district |-> VStr(sD1)]),
      Body([name |-> VStr(sA), state |-> VStr(sKA), district |-> VStr(sD1),
            latitude |-> VNum(90), longitude |-> VNum(-180),
            facilities |-> VList(<<sICU>>)]),
      Body([name |-> VStr(sA), state |-> VStr(sKAR)]),
      Body([name |-> VStr(sA), state |-> VNone, facilities |-> VNone,
            level |-> VStr(sD1), beds |-> VNum(5)]),
      Body([state |-> VStr(sKA)]) }

DirectoryDoctors ==
    { Body([name |-> VStr(sA)]),
      Body([name |-> VStr(sA), hospital_id |-> VStr(sH1), department |-> VStr(sENT)]),
      Body([name |-> VStr(sA), hospital_id |-> VStr(sH12)]),
      Body([name |-> VStr(sA), hospital_id |-> VStr(sH1)]),
      Body([name |-> VNum(7), hospital_id |-> VStr(sH1)]) }

StateParams == {VNone, VStr(<<>>), VStr(sK), VStr(sKA)}
DistrictParams == {VNone, VStr(sD1)}
HospitalIdParams == {VNone, VStr(<<>>), VStr(sH1)}
DepartmentParams == {VNone, VStr(sENT)}

DirCreateHospital ==
    /\ DocCount < MaxDocs
    /\ \E body \in DirectoryHospitals : Request(PostHospital(body))

DirListHospitals ==
    /\ Idle
    /\ \E st \in StateParams, di \in DistrictParams : Request(GetHospitals(st, di))

DirCreateDoctor ==
    /\ DocCount < MaxDocs
    /\ \E body \in DirectoryDoctors : Request(PostDoctor(body))

DirListDoctors ==
    /\ Idle
    /\ \E h \in HospitalIdParams, d \in DepartmentParams : Request(GetDoctors(h, d))

NextDirectory ==
    \/ DirCreateHospital
    \/ DirListHospitals
    \/ DirCreateDoctor
    \/ DirListDoctors

SpecDirectory == InitUp /\ [][NextDirectory]_vars

Eq(x, y) == x = y

\* every stored document, as <<collection, index>>
Stored == UNION { { <<c, j>> : j \in DOMAIN store[c] } : c \in CollectionNames }

HospitalFieldNames ==
    {"name", "level", "state", "district", "address", "latitude", "longitude",
     "phone", "email", "emergency_contact", "facilities", "departments"}

\* what a submitted body says about a field: its value, an empty list for an
\* omitted list field, null for any other omitted field
Submitted(body, f) ==
    IF f \in DOMAIN body THEN body[f]
    ELSE IF f \in {"facilities", "departments"} THEN VList(<<>>)
    ELSE VNone

\* the state parameter that filters by a body's state
StateParamFor(body) ==
    IF "state" \in DOMAIN body /\ body.state.k = "str" THEN body.state ELSE VNone

\* C1: a hospital created earlier is among the items of List Hospitals filtered
\* by its state, every field as submitted, its _id the non-empty string the
\* create returned, which no other stored record has.
C1_RoundTrip ==
    (resp.status = 200 /\ resp.req.route = "list_hospitals"
        /\ resp.req.params.district.k = "none") =>
    \A n \in DOMAIN log :
        (log[n].req.route = "create_hospital"
            /\ Eq(resp.req.params.state, StateParamFor(log[n].req.body))) =>
        /\ log[n].id.k = "str"
        /\ log[n].id.s # <<>>
        /\ \E i \in DOMAIN resp.body.items :
              /\ Eq(resp.body.items[i]["_id"], log[n].id)
              /\ \A f \in HospitalFieldNames :
                    Eq(resp.body.items[i][f], Submitted(log[n].req.body, f))
        /\ Cardinality({ x \in Stored :
                            Eq(StrOid(store[x[1]][x[2]]["_id"]), log[n].id) }) = 1

C1_Witness ==
    /\ resp.status = 200
    /\ resp.req.route = "list_hospitals"
    /\ resp.req.params.district.k = "none"
    /\ Len(store["hospital"]) >= 2
    /\ \E n \in DOMAIN log :
          /\ log[n].req.route = "create_hospital"
          /\ "latitude" \in DOMAIN log[n].req.body
          /\ "departments" \notin DOMAIN log[n].req.body
          /\ Truthy(resp.req.params.state)
          /\ Eq(resp.req.params.state, StateParamFor(log[n].req.body))
    /\ Len(resp.body.items) < Len(store["hospital"])

\* a parameter that was supplied, whatever its value
Supplied(p) == p.k # "none"

\* a parameter that was supplied and is not the empty string
SuppliedNonEmpty(p) == p.k = "str" /\ p.s # <<>>

\* the stored records of a collection equal to the parameters on every
\* parameter that constrains, as returned (the _id as its string)
ExpectedItems(coll, params, Constrains(_)) ==
    LET keep(d) == \A f \in DOMAIN params :
                       Constrains(params[f]) => Eq(d[f], params[f])
        sel == SelectSeq(store[coll], keep)
    IN  [i \in DOMAIN sel |-> [sel[i] EXCEPT !["_id"] = StrOid(@)]]

IsDirectoryList ==
    resp.status = 200 /\ resp.req.route \in {"list_hospitals", "list_doctors"}

\* C5 (as stated): List Hospitals and List Doctors return exactly the stored
\* records equal to the supplied value on every supplied parameter.
C5_SuppliedParamsFilter ==
    IsDirectoryList =>
        resp.body.items
            = ExpectedItems(RouteCollection(resp.req.route), resp.req.params, Supplied)

\* C5 (amended): List Hospitals and List Doctors return exactly the stored
\* records equal to the supplied value on every parameter supplied with a
\* non-empty value; an absent or empty parameter places no constraint.
C5_NonEmptyParamsFilter ==
    IsDirectoryList =>
        resp.body.items
            = ExpectedItems(RouteCollection(resp.req.route), resp.req.params,
                            SuppliedNonEmpty)

C5_Witness ==
    /\ resp.status = 200
    /\ resp.req.route = "list_hospitals"
    /\ Truthy(resp.req.params.state)
    /\ Truthy(resp.req.params.district)
    /\ Len(resp.body.items) = 1
    /\ \E j \in DOMAIN store["hospital"] :
          /\ Eq(store["hospital"][j]["state"], resp.req.params.state)
          /\ store["hospital"][j]["district"] # resp.req.params.district

----------------------------------------------------------------------------
(* Hospital coordinates *)

GeoHospitals ==
    { Body([name |-> VStr(sA), state |-> VStr(sKA), latitude |-> la, longitude |-> lo]) :
        la \in {Absent, VNum(-91), VNum(-90), VNum(0), VNum(90), VNum(91)},
        lo \in {Absent, VNum(-181), VNum(-180), VNum(180), VNum(181)} }
    \cup { Body([name |-> VStr(sA), latitude |-> VStr(sA)]),
           Body([latitude |-> VNum(0), longitude |-> VNum(0)]) }

GeoCreateHospital ==
    /\ Len(store["hospital"]) < MaxGeoDocs
    /\ \E body \in GeoHospitals : Request(PostHospital(body))

GeoListHospitals ==
    /\ Idle
    /\ \E st \in {VNone, VStr(sKA), VStr(sK)} : Request(GetHospitals(st, VNone))

NextGeo == GeoCreateHospital \/ GeoListHospitals

SpecGeo == InitUp /\ [][NextGeo]_vars

IsNum(body, f) == f \in DOMAIN body /\ body[f].k = "num"

OutOfRange(body) ==
    \/ IsNum(body, "latitude") /\ (body["latitude"].n < -90 \/ body["latitude"].n > 90)
    \/ IsNum(body, "longitude") /\ (body["longitude"].n < -180 \/ body["longitude"].n > 180)

\* C2: Create Hospital rejects a latitude outside [-90,90] or a longitude
\* outside [-180,180] and stores nothing; the bounds themselves are accepted
\* and stored.
C2_CoordinateBounds ==
    /\ resp.req.route = "create_hospital" =>
          IF OutOfRange(resp.req.body)
          THEN resp.status # 200 /\ ~resp.called
          ELSE Errors(Hospital, resp.req.body) = {} => resp.status = 200
    /\ \A j \in DOMAIN store["hospital"] :
          /\ store["hospital"][j]["latitude"].k = "num" =>
                store["hospital"][j]["latitude"].n \in -90..90
          /\ store["hospital"][j]["longitude"].k = "num" =>
                store["hospital"][j]["longitude"].n \in -180..180

----------------------------------------------------------------------------
(* Procedures *)

sCa == <<"C","a">>
sKn == <<"K","n">>
s_ca == <<"c","a">>
s_k_n == <<"k","-","n">>

ProcedureBodies ==
    { Body([name |-> VStr(sCa)]),
      Body([name |-> VStr(sKn), slug |-> VStr(s_ca)]),
      Body([name |-> VStr(sKn), slug |-> VStr(s_k_n),
            estimated_cost_min |-> VNum(0), estimated_cost_max |-> VNum(5)]),
      Body([name |-> VStr(sCa), estimated_cost_min |-> VNum(-1)]),
      Body([name |-> VStr(sKn), estimated_cost_min |-> VNum(3),
            estimated_cost_max |-> VNum(-1)]),
      Body([slug |-> VStr(s_ca)]),
      Body([name |-> VStr(sCa), estimated_cost_min |-> VStr(sA)]),
      Body([name |-> VStr(sCa), steps |-> VStr(sA)]) }

Queries ==
    {VNone, VStr(<<>>), VStr(s_ca), VStr(<<"C","A">>), VStr(<<"a">>), VStr(<<"n">>),
     VStr(<<"x">>), VStr(<<".">>), VStr(<<"k",".","n">>), VStr(<<"C",".">>)}

ProcCreate ==
    /\ Len(store["procedure"]) < MaxDocs
    /\ \E body \in ProcedureBodies : Request(PostProcedure(body))

ProcList == Idle /\ \E q \in Queries : Request(GetProcedures(q))

NextProcedure == ProcCreate \/ ProcList

SpecProcedure == InitUp /\ [][NextProcedure]_vars

\* q occurs in s as a substring, letter case ignored
Contains(s, q) ==
    \E i \in 1..(Len(s) + 1) :
        /\ i + Len(q) - 1 <= Len(s)
        /\ \A j \in 1..Len(q) : Lower(q[j]) = Lower(s[i + j - 1])

ContainsIn(d, f, q) == d[f].k = "str" /\ Contains(d[f].s, q)

\* C6: List Procedures with q returns exactly the stored procedures whose name
\* or slug contains q as a case-insensitive substring; without q, all of them.
C6_SubstringSearch ==
    (resp.status = 200 /\ resp.req.route = "list_procedures") =>
        LET q == resp.req.params.q
            keep(d) == q.k = "str" =>
                         ContainsIn(d, "name", q.s) \/ ContainsIn(d, "slug", q.s)
            sel == SelectSeq(store["procedure"], keep)
        IN  resp.body.items = [i \in DOMAIN sel |-> [sel[i] EXCEPT !["_id"] = StrOid(@)]]

\* C7: a create request whose body violates a constraint of its schema (a
\* required field, a primitive type, a numeric range) never reaches
\* create_document and leaves the store as it was.
C7_ValidationBeforeStore ==
    /\ (resp.req.route = "create_procedure" /\ Errors(Procedure, resp.req.body) # {}) =>
          resp.status # 200 /\ ~resp.called
    /\ \A n \in DOMAIN log :
          log[n].req.route = "create_procedure" => Errors(Procedure, log[n].req.body) = {}

----------------------------------------------------------------------------
(* Document requirements of a procedure *)

sHp == <<"H","p">>
sT == <<"T">>

DocumentBodies ==
    { Body([title |-> VStr(sT)]),
      Body([title |-> VStr(sT), procedure_slug |-> VNone, mandatory |-> VBool(FALSE)]),
      Body([title |-> VStr(sT), procedure_slug |-> VStr(sKn)]),
      Body([title |-> VStr(sT), procedure_slug |-> VStr(sHp), description |-> VStr(sA)]),
      Body([procedure_slug |-> VStr(sKn)]),
      Body([title |-> VStr(sT), mandatory |-> VNone]) }

Slugs == {VStr(sKn), VStr(sHp)}

DocCreate ==
    /\ Len(store["documentrequirement"]) < MaxDocs
    /\ \E slug \in Slugs, body \in DocumentBodies : Request(PostDocument(slug, body))

DocList == Idle /\ \E slug \in Slugs : Request(GetDocuments(slug))

NextDocument == DocCreate \/ DocList

SpecDocument == InitUp /\ [][NextDocument]_vars

\* the stored document requirement a create returned id for
DocumentOf(id) ==
    { j \in DOMAIN store["documentrequirement"] :
        Eq(StrOid(store["documentrequirement"][j]["_id"]), id) }

\* C3: a record stored through POST /api/procedures/{slug}/documents has
\* procedure_slug = {slug} whatever the body says, and GET on the same slug
\* returns it.
C3_PathSlugStored ==
    \A n \in DOMAIN log :
        log[n].req.route = "create_procedure_document" =>
        /\ DocumentOf(log[n].id) # {}
        /\ \A j \in DocumentOf(log[n].id) :
              Eq(store["documentrequirement"][j]["procedure_slug"], log[n].req.slug)
        /\ (resp.status = 200 /\ resp.req.route = "list_procedure_documents"
               /\ Eq(resp.req.slug, log[n].req.slug)) =>
              \E i \in DOMAIN resp.body.items :
                  /\ Eq(resp.body.items[i]["_id"], log[n].id)
                  /\ Eq(resp.body.items[i]["procedure_slug"], log[n].req.slug)

C3_Witness ==
    /\ resp.status = 200
    /\ resp.req.route = "list_procedure_documents"
    /\ Len(resp.body.items) = 1
    /\ Len(store["documentrequirement"]) = 2
    /\ \E n \in DOMAIN log :
          /\ Eq(resp.body.items[1]["_id"], log[n].id)
          /\ "procedure_slug" \in DOMAIN log[n].req.body
          /\ log[n].req.body["procedure_slug"].k = "str"
          /\ log[n].req.body["procedure_slug"] # log[n].req.slug

----------------------------------------------------------------------------
(* The store handle failing and recovering *)

sNotAvailable == <<"D","a","t","a","b","a","s","e"," ","n","o","t"," ",
                   "a","v","a","i","l","a","b","l","e">>

\* what the store raises while unreachable: a short and a long message
DownErrors == {Rep("t", 20), Rep("x", 60)}

Outage ==
    /\ db = "up"
    /\ db' = "down"
    /\ dbError' \in DownErrors
    /\ UNCHANGED <<store, nextOid, collections, env, inflight, resp, log>>

Recover ==
    /\ db = "down"
    /\ db' = "up"
    /\ dbError' = <<>>
    /\ UNCHANGED <<store, nextOid, collections, env, inflight, resp, log>>

\* the handle after start-up: not initialised, or initialised and reachable or not
InitHandle ==
    /\ db \in {"none", "up", "down"}
    /\ dbError \in (IF db = "none" THEN {sNotAvailable}
                    ELSE IF db = "down" THEN DownErrors ELSE {<<>>})

InitOutage ==
    /\ store = EmptyStore
    /\ nextOid = FirstOid
    /\ InitHandle
    /\ collections = <<>>
    /\ env = AllEnv
    /\ inflight = <<>>
    /\ resp = NoResponse
    /\ log = <<>>

OutHospitals == { Body([name |-> VStr(sA), state |-> VStr(sKA)]), Body([state |-> VStr(sKA)]) }
OutDoctors == { Body([name |-> VStr(sA)]), Body([name |-> VNone]) }
OutProcedures == { Body([name |-> VStr(sCa)]), Body([name |-> VStr(sCa), steps |-> VNum(1)]) }
OutDocuments == { Body([title |-> VStr(sT)]), Body([description |-> VStr(sA)]) }

OutCreateHospital ==
    DocCount < MaxDocs /\ \E body \in OutHospitals : Request(PostHospital(body))
OutCreateDoctor ==
    DocCount < MaxDocs /\ \E body \in OutDoctors : Request(PostDoctor(body))
OutCreateProcedure ==
    DocCount < MaxDocs /\ \E body \in OutProcedures : Request(PostProcedure(body))
OutCreateDocument ==
    DocCount < MaxDocs /\ \E body \in OutDocuments : Request(PostDocument(VStr(sKn), body))
OutListHospitals ==
    Idle /\ \E st \in {VNone, VStr(sKA)} : Request(GetHospitals(st, VNone))
OutListDoctors == Idle /\ Request(GetDoctors(VNone, VNone))
OutListProcedures ==
    Idle /\ \E q \in {VNone, VStr(s_ca)} : Request(GetProcedures(q))
OutListDocuments == Idle /\ Request(GetDocuments(VStr(sKn)))

NextOutage ==
    \/ OutCreateHospital
    \/ OutCreateDoctor
    \/ OutCreateProcedure
    \/ OutCreateDocument
    \/ OutListHospitals
    \/ OutListDoctors
    \/ OutListProcedures
    \/ OutListDocuments
    \/ Outage
    \/ Recover

SpecOutage == InitOutage /\ [][NextOutage]_vars

\* the request binds to its route: a list request, or a create whose body is valid
Binds(req) ==
    req.route \in CreateRoutes => Errors(BodyModel(req.route), req.body) = {}

\* C4: a create or list request served while the store is unreachable is
\* answered with status 500 and an error envelope with a non-empty detail.
C4_StoreFailureIs500 ==
    (resp.req.route \in CreateRoutes \cup ListRoutes /\ resp.unreachable
        /\ Binds(resp.req)) =>
    /\ resp.status = 500
    /\ DOMAIN resp.body = {"detail"}
    /\ resp.body.detail.k = "str"
    /\ resp.body.detail.s # <<>>

C4_Witness ==
    /\ resp.req.route = "list_procedure_documents"
    /\ resp.unreachable
    /\ resp.status = 500
    /\ db = "down"
    /\ DocCount > 0

\* C8 (as stated): a create request whose body fails validation is answered
\* with status 500 and the envelope {"detail": <message>}.
C8_ValidationFailureIs500 ==
    (resp.req.route \in CreateRoutes /\ ~Binds(resp.req)) =>
    /\ resp.status = 500
    /\ resp.body.detail.k = "str"

\* C8 (amended): a create request whose body fails validation is answered
\* with status 422 and a detail listing the offending fields, the handler not
\* entered; status 500 answers only a failed store call.
C8_ValidationFailureIs422 ==
    /\ (resp.req.route \in CreateRoutes /\ ~Binds(resp.req)) =>
          /\ resp.status = 422
          /\ resp.body.detail.k = "errors"
          /\ resp.body.detail.errors = Errors(BodyModel(resp.req.route), resp.req.body)
          /\ resp.body.detail.errors # {}
          /\ ~resp.called
    /\ resp.status = 500 => resp.called /\ resp.unreachable

C8_Witness ==
    /\ resp.req.route = "create_procedure_document"
    /\ resp.status = 422
    /\ [loc |-> "title", type |-> "missing"] \in resp.body.detail.errors
    /\ db = "down"

----------------------------------------------------------------------------
(* Requests in flight together *)

\* the kinds of request that arrive; inflight counts the pending ones of each
ConcRequests ==
    << PostHospital(Body([name |-> VStr(sA), state |-> VStr(sKA)])),
       PostDoctor(Body([name |-> VStr(sA), hospital_id |-> VStr(sH1)])),
       PostProcedure(Body([name |-> VStr(sCa)])),
       PostDocument(VStr(sKn), Body([title |-> VStr(sT)])),
       PostDocument(VStr(sKn), Body([description |-> VStr(sA)])),
       GetDoctors(VNone, VNone),
       GetDocuments(VStr(sKn)) >>

Pending(S) ==
    LET RECURSIVE Sum(_)
        Sum(n) == IF n = 0 THEN 0
                  ELSE (IF n \in S THEN inflight[n] ELSE 0) + Sum(n - 1)
    IN  Sum(Len(inflight))

CreateKinds == { i \in DOMAIN ConcRequests : ConcRequests[i].route \in CreateRoutes }

InitConcurrent ==
    /\ store = EmptyStore
    /\ nextOid = FirstOid
    /\ db = "up"
    /\ dbError = <<>>
    /\ collections = <<>>
    /\ env = AllEnv
    /\ inflight = [i \in DOMAIN ConcRequests |-> 0]
    /\ resp = NoResponse
    /\ log = <<>>

\* a request arrives and waits to be served
Receive ==
    \E i \in DOMAIN ConcRequests :
        /\ Pending(DOMAIN ConcRequests) < MaxInflight
        /\ i \in CreateKinds => DocCount + Pending(CreateKinds) < MaxDocs
        /\ inflight' = [inflight EXCEPT ![i] = @ + 1]
        /\ UNCHANGED <<store, nextOid, db, dbError, collections, env, resp, log>>

\* one of the requests in flight is served, in any order
Complete ==
    \E i \in DOMAIN ConcRequests :
        /\ inflight[i] > 0
        /\ Serve(ConcRequests[i])
        /\ inflight' = [inflight EXCEPT ![i] = @ - 1]
        /\ UNCHANGED <<db, dbError, collections, env>>

NextConcurrent == Receive \/ Complete \/ Outage \/ Recover

SpecConcurrent == InitConcurrent /\ [][NextConcurrent]_vars

IsPrefix(a, b) == Len(a) <= Len(b) /\ SubSeq(b, 1, Len(a)) = a

\* one step: stored records stay as they are, at most one is added, and only
\* by a successful create, to the collection of its route
AppendOnlyStep ==
    /\ \A c \in CollectionNames : IsPrefix(store[c], store'[c])
    /\ DocCount' <= DocCount + 1
    /\ DocCount' = DocCount + 1 <=> Len(log') = Len(log) + 1
    /\ DocCount' = DocCount + 1 =>
          /\ resp'.req.route \in CreateRoutes
          /\ resp'.status = 200
          /\ Len(store'[RouteCollection(resp'.req.route)])
                = Len(store[RouteCollection(resp'.req.route)]) + 1

\* one record per successful create, in the collection of its route, the
\* identifiers pairwise distinct
OnePerCreate ==
    /\ DocCount = Len(log)
    /\ Cardinality({ StrOid(store[x[1]][x[2]]["_id"]) : x \in Stored }) = DocCount
    /\ \A n \in DOMAIN log :
          \E j \in DOMAIN store[RouteCollection(log[n].req.route)] :
              StrOid(store[RouteCollection(log[n].req.route)][j]["_id"]) = log[n].id

\* C9: under every interleaving of in-flight create and list requests the store
\* is append-only, a successful create adds exactly one record to its route's
\* collection, lists change nothing, and when no request is left in flight the
\* store holds one record per successful create with distinct identifiers.
C9_AppendOnly == [][AppendOnlyStep]_vars /\ [](Idle => OnePerCreate)

C9_Witness ==
    /\ inflight[7] = 1
    /\ Len(store["documentrequirement"]) = 2
    /\ resp.req.route = "create_procedure_document"
    /\ resp.status = 200

----------------------------------------------------------------------------
(* The diagnostic route *)

\* the i-th collection name the store reports
CollectionName(i) == Rep("c", i)

InitDiag ==
    /\ store = EmptyStore
    /\ nextOid = FirstOid
    /\ InitHandle
    /\ collections = <<>>
    /\ env \in SUBSET AllEnv
    /\ inflight = <<>>
    /\ resp = NoResponse
    /\ log = <<>>

\* a collection appears in the database
AddCollection ==
    /\ Len(collections) < MaxColls
    /\ collections' = Append(collections, CollectionName(Len(collections) + 1))
    /\ UNCHANGED <<store, nextOid, db, dbError, env, inflight, resp, log>>

Diagnose == Idle /\ Request(GetTest)

NextDiag == Diagnose \/ AddCollection \/ Outage \/ Recover

SpecDiag == InitDiag /\ [][NextDiag]_vars

FirstTen(colls) == [i \in 1..(IF Len(colls) < 10 THEN Len(colls) ELSE 10) |-> colls[i]]

DiagAlwaysAnswers ==
    resp.req.route = "test_database" =>
        /\ resp.status = 200
        /\ Len(resp.body.collections) <= 10
        /\ resp.unreachable =>
              /\ resp.body.collections = <<>>
              /\ resp.body.database[1] # "Connected & Working"
        /\ ~resp.unreachable => resp.body.database[1] = "Connected & Working"

\* the answer of a diagnostic request served in this step
DiagStep ==
    (resp'.req.route = "test_database" /\ UNCHANGED <<db, dbError, collections, env>>) =>
        /\ resp'.body.collections = (IF db = "up" THEN FirstTen(collections) ELSE <<>>)
        /\ resp'.body.database[1] =
              (IF db = "none" THEN "Available but not initialized"
               ELSE IF db = "down" THEN "Connected but Error: "
               ELSE "Connected & Working")
        /\ db = "down" => /\ Len(resp'.body.database[2]) <= 50
                          /\ IsPrefix(resp'.body.database[2], dbError)

\* C10: GET /test always answers normally, whatever the state of the store
\* handle; the failure shows in the database status string, and collections
\* holds the first 10 names the store reports, none when the store is not usable.
C10_DiagnosticNeverFails == []DiagAlwaysAnswers /\ [][DiagStep]_vars

C10_Witness ==
    /\ resp.req.route = "test_database"
    /\ resp.status = 200
    /\ Len(resp.body.collections) = 10
    /\ Len(collections) > 10

====
